---- MODULE Spec2Model ----
(***************************************************************************)
(* Model of pasword_generator.py: the password generator                   *)
(* generate_password and the script around it (module level and main).     *)
(*                                                                         *)
(* A Python str is modelled as the sequence of its characters, a character *)
(* as a one-character string.  "".join(xs) of one-character strings is     *)
(* then the sequence xs itself.  The random source (secrets.choice,        *)
(* SystemRandom().shuffle) is a nondeterministic choice over its possible  *)
(* outcomes.                                                               *)
(*                                                                         *)
(* Two ways into the code are modelled: a call of generate_password with   *)
(* its six parameters (entry = "function"), and a run of the file as a     *)
(* script (entry = "script"), which starts at the module level.            *)
(***************************************************************************)
EXTENDS Integers, Sequences, FiniteSets, TLC

VARIABLES
    entry,          \* how the code is exercised: "function" or "script"
    pc,             \* "call", "returned", "raised"  |  "script", "exit"
    length,         \* generate_password parameter / --length
    use_lower,      \* generate_password parameter / not --no-lower
    use_upper,      \* generate_password parameter / not --no-upper
    use_digits,     \* generate_password parameter / --digits
    use_symbols,    \* generate_password parameter / --symbols
    no_ambiguous,   \* generate_password parameter / --no-ambiguous
    count,          \* --count
    password_chars, \* the list as built by lines 47-52, before the shuffle
    result,         \* the string generate_password returned
    raised,         \* the exception that left generate_password / the script
    stdout          \* the lines printed so far

vars == <<entry, pc, length, use_lower, use_upper, use_digits, use_symbols,
          no_ambiguous, count, password_chars, result, raised, stdout>>

----------------------------------------------------------------------------
(* Bounds of the model *)

\* lengths requested range over -1 .. MaxLen
MaxLen == 4

\* the random source draws one of the first MaxDraw or the last MaxDraw
\* elements of the sequence it chooses from
MaxDraw == 1

\* --count ranges over 0 .. MaxCount
MaxCount == 2

----------------------------------------------------------------------------
(* Alphabets *)

ascii_lowercase ==
    << "a","b","c","d","e","f","g","h","i","j","k","l","m",
       "n","o","p","q","r","s","t","u","v","w","x","y","z" >>

ascii_uppercase ==
    << "A","B","C","D","E","F","G","H","I","J","K","L","M",
       "N","O","P","Q","R","S","T","U","V","W","X","Y","Z" >>

digits == << "0","1","2","3","4","5","6","7","8","9" >>

symbols == << "!","@","#","$","%","^","&","*","_","-","+","=","?" >>

\* The grave accent cannot be written in a string here: "GRAVE" stands for it.
AMBIGUOS ==
    { "I","l","1","O","0","B","8","S","5","Z","2",
      "(",")","{","}","[","]","/","\\","'","\"","GRAVE",",",";",":",".","<",">" }

----------------------------------------------------------------------------
(* Helpers *)

Range(s) == { s[i] : i \in DOMAIN s }

RECURSIVE Flatten(_)
Flatten(ss) == IF ss = <<>> THEN <<>> ELSE Head(ss) \o Flatten(Tail(ss))

NoError == [type |-> "None"]

----------------------------------------------------------------------------
(* generate_password *)

\* Pool without the filter on AMBIGUOS
PoolUnfiltered(alphabet, no_amb) == alphabet

\* [c for c in alphabet if not no_ambiguous or c not in AMBIGUOS]
Pool(alphabet, no_amb) ==
    SelectSeq(alphabet, LAMBDA c : (~no_amb) \/ c \notin AMBIGUOS)

\* lines 30-38: the list of the selected classes' pools, in the fixed order
BuildPools(ul, uu, ud, us, no_amb) ==
       (IF ul THEN << Pool(ascii_lowercase, no_amb) >> ELSE <<>>)
    \o (IF uu THEN << Pool(ascii_uppercase, no_amb) >> ELSE <<>>)
    \o (IF ud THEN << Pool(digits, no_amb) >> ELSE <<>>)
    \o (IF us THEN << Pool(symbols, no_amb) >> ELSE <<>>)

\* Validate with the two checks in the other order
ValidateLengthFirst(pools, len) ==
    IF len < Len(pools)
    THEN [type |-> "ValueError",
          msg  |-> "Comprimento minimo e {minimum} para incluir todas as categorias selecionadas.",
          minimum |-> Len(pools)]
    ELSE IF Len(pools) = 0
    THEN [type |-> "ValueError",
          msg  |-> "Selecione pelo menos um tipo de caractere."]
    ELSE [type |-> "None"]

\* Validate with <= for < in the length check
ValidateOffByOne(pools, len) ==
    IF Len(pools) = 0
    THEN [type |-> "ValueError",
          msg  |-> "Selecione pelo menos um tipo de caractere."]
    ELSE IF len <= Len(pools)
    THEN [type |-> "ValueError",
          msg  |-> "Comprimento minimo e {minimum} para incluir todas as categorias selecionadas.",
          minimum |-> Len(pools)]
    ELSE [type |-> "None"]

\* lines 40-44: the exception the validation raises, or NoError.  The second
\* message is the f-string's text without its accents, its {len(pools)} kept
\* apart as the field minimum.
Validate(pools, len) ==
    IF Len(pools) = 0
    THEN [type |-> "ValueError",
          msg  |-> "Selecione pelo menos um tipo de caractere."]
    ELSE IF len < Len(pools)
    THEN [type |-> "ValueError",
          msg  |-> "Comprimento minimo e {minimum} para incluir todas as categorias selecionadas.",
          minimum |-> Len(pools)]
    ELSE NoError

\* secrets.choice(seq): the elements it can return
Choice(seq) ==
    { seq[i] : i \in { j \in 1..Len(seq) : j <= MaxDraw \/ j > Len(seq) - MaxDraw } }

\* the lists that hold, for each sequence of ss in order, one element it can
\* be chosen to give
RECURSIVE ChoiceEach(_)
ChoiceEach(ss) ==
    IF ss = <<>> THEN { <<>> }
    ELSE { <<c>> \o g : c \in Choice(Head(ss)), g \in ChoiceEach(Tail(ss)) }

\* Guaranteed drawing every character from the combined charset:
\* [secrets.choice(charset) for pool in pools]
GuaranteedFromCharset(pools) ==
    [1..Len(pools) -> Choice(Flatten(pools))]

\* line 47: [secrets.choice(pool) for pool in pools]
Guaranteed(pools) == ChoiceEach(pools)

\* Charset built from all four classes, selected or not
CharsetAllClasses(pools) ==
    ascii_lowercase \o ascii_uppercase \o digits \o symbols

\* line 50: [c for pool in pools for c in pool]
Charset(pools) == Flatten(pools)

\* Remaining without the subtraction
RemainingNoSubtract(len, n) == len

\* line 51: remaining = length - len(password_chars)
Remaining(len, n) == len - n

\* line 52: [secrets.choice(charset) for _ in range(remaining)]
Fill(charset, remaining) == [1..remaining -> Choice(charset)]

\* Shuffle that leaves the list as it is
ShuffleIdentity(xs) == { xs }

\* Shuffle that samples the positions with replacement
ShuffleWithReplacement(xs) ==
    { [i \in 1..Len(xs) |-> xs[p[i]]] : p \in [1..Len(xs) -> 1..Len(xs)] }

\* line 55: secrets.SystemRandom().shuffle(xs): the orders it can leave xs in
Shuffle(xs) ==
    { [i \in 1..Len(xs) |-> xs[p[i]]] : p \in Permutations(1..Len(xs)) }

\* lines 46-56: the strings a call that passed validation can return
Passwords(pools, len) ==
    UNION { Shuffle(g \o f) :
              g \in Guaranteed(pools),
              f \in Fill(Charset(pools), Remaining(len, Len(pools))) }

\* lines 28-56, one call
generate_password ==
    /\ entry = "function"
    /\ pc = "call"
    /\ LET pools == BuildPools(use_lower, use_upper, use_digits, use_symbols,
                               no_ambiguous)
           err   == Validate(pools, length)
       IN  IF err # NoError
           THEN /\ pc' = "raised"
                /\ raised' = err
                /\ UNCHANGED <<password_chars, result>>
           ELSE IF \E i \in 1..Len(pools) : pools[i] = <<>>
           THEN \* secrets.choice of an empty sequence
                /\ pc' = "raised"
                /\ raised' = [type |-> "IndexError"]
                /\ UNCHANGED <<password_chars, result>>
           ELSE \E g \in Guaranteed(pools) :
                \E f \in Fill(Charset(pools), Remaining(length, Len(pools))) :
                \E s \in Shuffle(g \o f) :
                    /\ password_chars' = g \o f
                    /\ result' = s
                    /\ pc' = "returned"
                    /\ raised' = NoError
    /\ UNCHANGED <<entry, length, use_lower, use_upper, use_digits,
                   use_symbols, no_ambiguous, count, stdout>>

----------------------------------------------------------------------------
(* The script: module level and main *)

\* the names bound in the module's namespace when line 88 is evaluated
ModuleNamespace ==
    [ n \in { "__name__", "__doc__", "__file__", "__builtins__",
              "argparse", "secrets", "string", "List", "AMBIGUOS",
              "build_charset", "generate_password", "main" } |->
        IF n = "__name__" THEN "__main__" ELSE n ]

Max(a, b) == IF a >= b THEN a ELSE b

\* lines 75-86: what main can leave on stdout
main(len, ul, uu, ud, us, no_amb, cnt) ==
    LET pools == BuildPools(ul, uu, ud, us, no_amb)
        err   == Validate(pools, len)
    IN  IF err # NoError
        THEN { << [prefix |-> "Erro: ", text |-> err] >> }
        ELSE [ 1..Max(1, cnt) ->
                 { [prefix |-> "", text |-> s] : s \in Passwords(pools, len) } ]

\* lines 88-89, run as `python password_generator.py ...`
RunScript ==
    /\ entry = "script"
    /\ pc = "script"
    /\ IF "_name_" \notin DOMAIN ModuleNamespace
       THEN \* the name _name_ is not defined: the run ends with a traceback
            /\ raised' = [type |-> "NameError", name |-> "_name_"]
            /\ UNCHANGED stdout
       ELSE IF ModuleNamespace["_name_"] = "_main_"
       THEN /\ stdout' \in main(length, use_lower, use_upper, use_digits,
                                use_symbols, no_ambiguous, count)
            /\ UNCHANGED raised
       ELSE UNCHANGED <<raised, stdout>>
    /\ pc' = "exit"
    /\ UNCHANGED <<entry, length, use_lower, use_upper, use_digits,
                   use_symbols, no_ambiguous, count, password_chars, result>>

----------------------------------------------------------------------------
(* The state machine *)

Init ==
    /\ length \in (0 - 1)..MaxLen
    /\ no_ambiguous \in BOOLEAN
    /\ password_chars = <<>>
    /\ result = <<>>
    /\ raised = NoError
    /\ stdout = <<>>
    /\ \/ /\ entry = "function"
          /\ pc = "call"
          /\ use_lower \in BOOLEAN
          /\ use_upper \in BOOLEAN
          /\ use_digits \in BOOLEAN
          /\ use_symbols \in BOOLEAN
          /\ count = 1
       \/ /\ entry = "script"
          /\ pc = "script"
          \* lines 70-73
          /\ \E no_lower \in BOOLEAN : use_lower = ~no_lower
          /\ \E no_upper \in BOOLEAN : use_upper = ~no_upper
          /\ use_digits \in BOOLEAN
          /\ use_symbols \in BOOLEAN
          /\ count \in 0..MaxCount

Next == generate_password \/ RunScript

Spec == Init /\ [][Next]_vars

----------------------------------------------------------------------------
(* Vocabulary of the properties, taken from the request alone *)

Classes == << "lower", "upper", "digits", "symbols" >>

Alphabet(c) ==
    CASE c = "lower"   -> ascii_lowercase
      [] c = "upper"   -> ascii_uppercase
      [] c = "digits"  -> digits
      [] c = "symbols" -> symbols

\* the characters of class c that a request with no_ambiguous = na may use
ClassChars ==
    [ c \in Range(Classes), na \in BOOLEAN |->
        { ch \in Range(Alphabet(c)) : ~(na /\ ch \in AMBIGUOS) } ]

IsSelected(c) ==
    \/ c = "lower"   /\ use_lower
    \/ c = "upper"   /\ use_upper
    \/ c = "digits"  /\ use_digits
    \/ c = "symbols" /\ use_symbols

Selected == { c \in Range(Classes) : IsSelected(c) }

SelectedSeq == SelectSeq(Classes, IsSelected)

NumSelected ==
      (IF use_lower THEN 1 ELSE 0) + (IF use_upper THEN 1 ELSE 0)
    + (IF use_digits THEN 1 ELSE 0) + (IF use_symbols THEN 1 ELSE 0)

\* the filtered pool of class c, as a set
FilteredPool(c) == ClassChars[c, no_ambiguous]

CombinedAlphabet == UNION { FilteredPool(c) : c \in Selected }

ValidRequest == NumSelected >= 1 /\ length >= NumSelected

\* a call of generate_password has ended
CallEnded == entry = "function" /\ pc # "call"

Occurrences(s, ch) == Cardinality({ i \in DOMAIN s : s[i] = ch })

\* s and t hold the same characters, each as many times
IsPermutationOf(s, t) ==
    /\ Len(s) = Len(t)
    /\ \A i \in DOMAIN s : Occurrences(s, s[i]) = Occurrences(t, s[i])

----------------------------------------------------------------------------
(* Properties *)

\* C1: a call with a valid request returns, and the string returned holds at
\* least one character of the filtered pool of each selected class.
C1_CategoryCoverage ==
    (CallEnded /\ ValidRequest) =>
        /\ pc = "returned"
        /\ \A c \in Selected : \E i \in DOMAIN result : result[i] \in FilteredPool(c)

\* a call with three classes and one fill character has returned
C1_Witness ==
    /\ entry = "function" /\ pc = "returned"
    /\ NumSelected = 3 /\ length = 4

\* C2: a call with a valid request returns a string of exactly `length`
\* characters; the list built before the shuffle has `length` elements too,
\* so the shuffle neither adds nor loses one.
C2_ExactLength ==
    (CallEnded /\ ValidRequest) =>
        /\ pc = "returned"
        /\ Len(password_chars) = length
        /\ Len(result) = length

\* a call with fewer classes than characters has returned
C2_Witness ==
    /\ entry = "function" /\ pc = "returned"
    /\ NumSelected = 2 /\ length = 4 /\ Len(result) = 4

\* C3: with no_ambiguous set, no character drawn (guaranteed or fill) and no
\* character of the string returned is a member of AMBIGUOS.
C3_NoAmbiguous ==
    (CallEnded /\ ValidRequest /\ no_ambiguous) =>
        /\ pc = "returned"
        /\ \A i \in DOMAIN password_chars : password_chars[i] \notin AMBIGUOS
        /\ \A i \in DOMAIN result : result[i] \notin AMBIGUOS

\* a call with no_ambiguous over classes that hold ambiguous characters has
\* returned, with fill characters
C3_Witness ==
    /\ entry = "function" /\ pc = "returned"
    /\ no_ambiguous /\ use_upper /\ use_digits
    /\ length > NumSelected

\* C4: with no class selected the call raises the ValueError of the no-class
\* check, whatever the length (the length check is not reached), and nothing
\* is drawn or returned.
C4_NoClassSelected ==
    (CallEnded /\ NumSelected = 0) =>
        /\ pc = "raised"
        /\ raised = [type |-> "ValueError",
                     msg  |-> "Selecione pelo menos um tipo de caractere."]
        /\ password_chars = <<>>
        /\ result = <<>>

\* a call with no class and a negative length has raised
C4_Witness ==
    /\ entry = "function" /\ pc = "raised"
    /\ NumSelected = 0 /\ length < 0

\* C5: with at least one class selected, the call raises the ValueError of
\* the length check, reporting the number of selected classes as the minimum,
\* exactly when length is less than that number; it then returns nothing.
C5_LengthTooShort ==
    (CallEnded /\ NumSelected >= 1) =>
        /\ length < NumSelected =>
              /\ pc = "raised"
              /\ raised.type = "ValueError"
              /\ "minimum" \in DOMAIN raised
              /\ raised.minimum = NumSelected
              /\ password_chars = <<>>
              /\ result = <<>>
        /\ length >= NumSelected => raised.type # "ValueError"

\* a call with four classes and length 3 has raised
C5_Witness ==
    /\ entry = "function" /\ pc = "raised"
    /\ NumSelected = 4 /\ length = 3

\* C7: when length equals the number of selected classes, the string returned
\* holds exactly one character of each selected class; the filtered pools of
\* distinct classes are pairwise disjoint.
C7_OnePerClass ==
    (CallEnded /\ ValidRequest /\ length = NumSelected) =>
        /\ pc = "returned"
        /\ \A c \in Selected :
              Cardinality({ i \in DOMAIN result : result[i] \in FilteredPool(c) }) = 1
        /\ \A c, d \in Selected :
              c # d => FilteredPool(c) \cap FilteredPool(d) = {}

\* a call with four classes and length 4 has returned
C7_Witness ==
    /\ entry = "function" /\ pc = "returned"
    /\ NumSelected = 4 /\ length = 4

\* C8: before a call with a valid request, for every position p and every
\* selected class c some run of the call returns a string with a character of
\* class c at position p.
C8_NoReservedPosition ==
    (entry = "function" /\ pc = "call" /\ ValidRequest) =>
        \A p \in 1..length : \A c \in Selected :
            ENABLED (generate_password /\ result'[p] \in FilteredPool(c))

\* a call with length = number of classes = 4 has returned with the guaranteed
\* characters of the first and the last class having changed places
C8_Witness ==
    /\ entry = "function" /\ pc = "returned"
    /\ NumSelected = 4 /\ length = 4
    /\ result[1] \in FilteredPool("symbols")
    /\ result[4] \in FilteredPool("lower")

\* C9: a run of the script with a valid request and count >= 1 ends having
\* printed exactly count passwords, each of the requested length and holding
\* a character of every selected class, with no error.
C9_ScriptEmitsCount ==
    (entry = "script" /\ pc = "exit" /\ ValidRequest /\ count >= 1) =>
        /\ raised = NoError
        /\ Len(stdout) = count
        /\ \A k \in DOMAIN stdout :
              /\ stdout[k].prefix = ""
              /\ Len(stdout[k].text) = length
              /\ \A c \in Selected :
                    \E i \in DOMAIN stdout[k].text :
                        stdout[k].text[i] \in FilteredPool(c)

\* C10: every character of the string returned is in the filtered pool of
\* some selected class, and the string is a permutation of the list built:
\* one character of each selected class, in order, then the fill characters,
\* all of the combined alphabet.
C10_CombinedAlphabetOnly ==
    (CallEnded /\ ValidRequest) =>
        /\ pc = "returned"
        /\ \A i \in DOMAIN result : result[i] \in CombinedAlphabet
        /\ IsPermutationOf(result, password_chars)
        /\ \A i \in 1..NumSelected :
              password_chars[i] \in FilteredPool(SelectedSeq[i])
        /\ \A i \in DOMAIN password_chars : password_chars[i] \in CombinedAlphabet

\* a call with a single class and fill characters has returned
C10_Witness ==
    /\ entry = "function" /\ pc = "returned"
    /\ NumSelected = 1 /\ length = 3
    /\ result # password_chars

\* Every selected class has a character left after the filter: line 47 never
\* chooses from an empty pool.
PoolsNonEmpty ==
    \A c \in Selected : FilteredPool(c) # {}

====
